---- MODULE Spec2Model ----
(***************************************************************************)
(* Model of the schemastery resolution engine (src/src/index.ts):          *)
(* Schema.resolve, the resolvers registered with Schema.extend, the        *)
(* helpers property and merge, Schema.from and the metadata setters.       *)
(*                                                                         *)
(* JavaScript values are tagged records.  Null stands for `undefined`      *)
(* (the value of a missing property or argument); strings are at most one  *)
(* character long, so that spreading a string into an object yields at     *)
(* most the key "0".  A plain object is a sequence of its own keys in      *)
(* insertion order with a function giving their values.  Input values are  *)
(* trees: no object is reachable along two paths.  A call returns, beside  *)
(* its JavaScript result, the caller's argument as the call left it, which *)
(* is how mutation in place is modelled.                                   *)
(***************************************************************************)
EXTENDS Integers, Sequences, FiniteSets, TLC

VARIABLES
    schema,   \* the schema the caller built
    input,    \* the caller's data, as the calls leave it
    given,    \* the caller's data as it was passed to Schema.resolve
    hint,     \* the strict argument of the call
    phase,    \* "built", "resolved", "again"
    out,      \* what Schema.resolve(input, schema, hint) did
    again,    \* what Schema.resolve(out value, schema, hint) did next
    current,  \* SchemaError.current
    trace     \* the log of the calls

vars == <<schema, input, given, hint, phase, out, again, current, trace>>

\* Numbers of the inputs are 0 .. MaxNum.
MaxNum == 1
\* Arrays of the inputs have at most MaxLen elements.
MaxLen == 2

-----------------------------------------------------------------------------
(* JavaScript values *)

Null == [t |-> "null"]
Num(n) == [t |-> "num", n |-> n]
Str(s) == [t |-> "str", s |-> s]
Bool(b) == [t |-> "bool", b |-> b]
Arr(items) == [t |-> "arr", items |-> items]
Obj(keys, vals) == [t |-> "map", keys |-> keys, vals |-> vals]

EmptyObj == Obj(<<>>, [k \in {} |-> Null])

Range(s) == {s[i] : i \in 1..Len(s)}

RECURSIVE SeqWithout(_, _)
SeqWithout(s, x) ==
    IF s = <<>> THEN <<>>
    ELSE IF Head(s) = x THEN SeqWithout(Tail(s), x)
    ELSE <<Head(s)>> \o SeqWithout(Tail(s), x)

isNullable(value) == value.t = "null"

isObject(data) == data.t = "map"

isArray(data) == data.t = "arr"

\* `key in data` for a plain object
hasKey(data, key) == key \in Range(data.keys)

\* data[key] of a plain object: undefined when the key is missing
getKey(data, key) == IF hasKey(data, key) THEN data.vals[key] ELSE Null

\* The array-index keys an object of the model can get: "0", "1", ...
MaxIndexKey == MaxNum + MaxLen + 1

isIndexKey(key) == \E i \in 0..MaxIndexKey : ToString(i) = key

indexOfKey(key) == CHOOSE i \in 0..MaxIndexKey : ToString(i) = key

\* Own keys enumerate with the array-index keys first, in ascending order,
\* then the other keys in insertion order.
insertKey(keys, key) ==
    IF isIndexKey(key)
    THEN LET before(k) == isIndexKey(k) /\ indexOfKey(k) < indexOfKey(key)
             after(k) == ~before(k)
         IN  SelectSeq(keys, before) \o <<key>> \o SelectSeq(keys, after)
    ELSE Append(keys, key)

\* data[key] = value: a new key enters the enumeration order
setKey(data, key, value) ==
    Obj(IF hasKey(data, key) THEN data.keys ELSE insertKey(data.keys, key),
        [k \in Range(data.keys) \cup {key} |-> IF k = key THEN value ELSE data.vals[k]])

\* delete data[key]
deleteKey(data, key) ==
    Obj(SeqWithout(data.keys, key),
        [k \in Range(data.keys) \ {key} |-> data.vals[k]])

\* data[index] of an array, index counted from 1: undefined past the end
getIndex(data, index) ==
    IF index \in 1..Len(data.items) THEN data.items[index] ELSE Null

\* data[index] = value: writing past the end lengthens the array
setIndex(data, index, value) ==
    Arr([i \in 1..(IF index > Len(data.items) THEN index ELSE Len(data.items)) |->
            IF i = index THEN value ELSE getIndex(data, i)])

getProp(data, key) == IF isArray(data) THEN getIndex(data, key) ELSE getKey(data, key)

setProp(data, key, value) ==
    IF isArray(data) THEN setIndex(data, key, value) ELSE setKey(data, key, value)

hasProp(data, key) ==
    IF isArray(data) THEN key \in 1..Len(data.items) ELSE hasKey(data, key)

\* String(value), as a template literal and a property key convert a value
RECURSIVE Text(_)
RECURSIVE Join(_, _)
Join(items, i) ==
    IF i > Len(items) THEN ""
    ELSE (IF i > 1 THEN "," ELSE "")
         \o (IF isNullable(items[i]) THEN "" ELSE Text(items[i]))
         \o Join(items, i + 1)

Text(value) ==
    CASE value.t = "null" -> "undefined"
      [] value.t = "num" -> ToString(value.n)
      [] value.t = "str" -> value.s
      [] value.t = "bool" -> (IF value.b THEN "true" ELSE "false")
      [] value.t = "arr" -> Join(value.items, 1)
      [] value.t = "map" -> "[object Object]"

\* the string of JSON.stringify(value) inside a template literal
RECURSIVE stringify(_)
RECURSIVE stringifyItems(_, _)
RECURSIVE stringifyFields(_, _, _)
stringifyItems(items, i) ==
    IF i > Len(items) THEN ""
    ELSE (IF i > 1 THEN "," ELSE "")
         \o (IF isNullable(items[i]) THEN "null" ELSE stringify(items[i]))
         \o stringifyItems(items, i + 1)

stringifyFields(data, i, first) ==
    IF i > Len(data.keys) THEN ""
    ELSE LET key == data.keys[i]
         IN  IF isNullable(data.vals[key]) THEN stringifyFields(data, i + 1, first)
             ELSE (IF first THEN "" ELSE ",")
                  \o "\"" \o key \o "\":" \o stringify(data.vals[key])
                  \o stringifyFields(data, i + 1, FALSE)

stringify(value) ==
    CASE value.t = "null" -> "undefined"
      [] value.t = "num" -> ToString(value.n)
      [] value.t = "str" -> "\"" \o value.s \o "\""
      [] value.t = "bool" -> (IF value.b THEN "true" ELSE "false")
      [] value.t = "arr" -> "[" \o stringifyItems(value.items, 1) \o "]"
      [] value.t = "map" -> "{" \o stringifyFields(value, 1, TRUE) \o "}"

\* merge(result, data): the keys of data that result lacks are copied
RECURSIVE mergeKeys(_, _, _)
mergeKeys(result, data, i) ==
    IF i > Len(data.keys) THEN result
    ELSE LET key == data.keys[i]
         IN  mergeKeys(IF hasKey(result, key) THEN result
                       ELSE setKey(result, key, data.vals[key]), data, i + 1)

merge(result, data) == mergeKeys(result, data, 1)

\* Object.assign(target, source): the own enumerable properties of source,
\* in enumeration order, are written to target; later writes win.
RECURSIVE assignItems(_, _, _)
assignItems(target, items, i) ==
    IF i > Len(items) THEN target
    ELSE assignItems(setKey(target, ToString(i - 1), items[i]), items, i + 1)

RECURSIVE assignKeys(_, _, _)
assignKeys(target, source, i) ==
    IF i > Len(source.keys) THEN target
    ELSE assignKeys(setKey(target, source.keys[i], source.vals[source.keys[i]]), source, i + 1)

\* Object.assign that keeps the keys target already has
assignKeep(target, source) ==
    IF source.t = "map" THEN mergeKeys(target, source, 1) ELSE target

assign(target, source) ==
    CASE source.t = "map" -> assignKeys(target, source, 1)
      [] source.t = "arr" -> assignItems(target, source.items, 1)
      [] source.t = "str" -> IF source.s = "" THEN target ELSE setKey(target, "0", source)
      [] OTHER -> target

-----------------------------------------------------------------------------
(* Schemas *)

\* SchemaError.current = null, and a schema argument that is not given
NoSchema == [type |-> "null"]

\* schema.meta ||= {}
NoMeta == [required |-> FALSE, default |-> Null]

Schema(type) == [type |-> type, meta |-> NoMeta]

isSchema(source) == "type" \in DOMAIN source

\* the constructors String, Number, Boolean, Object and Array
Ctor(name) == [ctor |-> name]

\* schema.required()
required(s) == [s EXCEPT !.meta.required = TRUE]

\* schema.default(value)
default(s, value) == [s EXCEPT !.meta.default = value]

any == Schema("any")
never == Schema("never")
string == Schema("string")
number == Schema("number")
boolean == Schema("boolean")
const(value) == [type |-> "const", meta |-> NoMeta, value |-> value]
is(callback) == [type |-> "is", meta |-> NoMeta, callback |-> callback]

from(source) ==
    CASE isSchema(source) -> source
      [] "ctor" \in DOMAIN source ->
            (CASE source.ctor = "String" -> string
               [] source.ctor = "Number" -> number
               [] source.ctor = "Boolean" -> boolean
               [] OTHER -> is(source.ctor))
      [] isNullable(source) -> any
      [] source.t \in {"str", "num", "bool"} -> required(const(source))
      [] OTHER -> [type |-> "SchemaError", meta |-> NoMeta,
                   message |-> <<"cannot infer schema from ", Text(source)>>]

array(inner) == [type |-> "array", meta |-> NoMeta, inner |-> from(inner)]
dict(inner, sKey) ==
    [type |-> "dict", meta |-> NoMeta, inner |-> from(inner), sKey |-> from(sKey)]
tuple(list) ==
    [type |-> "tuple", meta |-> NoMeta, list |-> [i \in 1..Len(list) |-> from(list[i])]]
object(keys, fields) ==
    [type |-> "object", meta |-> NoMeta,
     dict |-> [keys |-> keys, vals |-> [k \in Range(keys) |-> from(fields[k])]]]
union(list) ==
    [type |-> "union", meta |-> NoMeta, list |-> [i \in 1..Len(list) |-> from(list[i])]]
intersect(list) ==
    [type |-> "intersect", meta |-> NoMeta, list |-> [i \in 1..Len(list) |-> from(list[i])]]
transform(inner, callback) ==
    [type |-> "transform", meta |-> NoMeta, inner |-> from(inner), callback |-> callback]

\* The kinds Schema.extend has registered a resolver for
resolvers ==
    {"any", "never", "const", "string", "number", "boolean", "is", "array",
     "dict", "tuple", "object", "union", "intersect", "transform"}

-----------------------------------------------------------------------------
(* The callbacks given to transform: functions of the caller.               *)
(*   id    v => v                                                           *)
(*   next  the next number (cyclically) or the next key, else v             *)
(*   void  v => undefined                                                   *)
(*   boom  v => { throw new Error("boom") }                                 *)

Callbacks == {"id", "next", "void", "boom"}

throws(callback, value) == callback = "boom"

call(callback, value) ==
    CASE callback = "id" -> value
      [] callback = "next" ->
            (CASE value.t = "num" -> Num((value.n + 1) % (MaxNum + 1))
               [] value.t = "str" -> (IF value.s = "a" THEN Str("b") ELSE value)
               [] OTHER -> value)
      [] OTHER -> Null

-----------------------------------------------------------------------------
(* Outcomes.  st is the state a call threads through: SchemaError.current   *)
(* and the log of what happened, an observer of the run.                    *)

NoError == [schemaError |-> FALSE, message |-> <<>>]

Done(ret, same, data, st) ==
    [ok |-> TRUE, ret |-> ret, same |-> same, data |-> data, error |-> NoError, st |-> st]

Failed(error, data, st) ==
    [ok |-> FALSE, ret |-> <<>>, same |-> FALSE, data |-> data, error |-> error, st |-> st]

Log(st, ev, s, h, previous) ==
    [st EXCEPT !.log = Append(@, [ev |-> ev, schema |-> s, hint |-> h,
                                  current |-> st.current, previous |-> previous])]

\* throw new SchemaError(message) in the resolution of schema s
throwSchemaError(message, s, data, st) ==
    Failed([schemaError |-> TRUE, message |-> message], data,
           Log(st, "raise", s, "", NoSchema))

\* an error of the callback of schema s, which is no SchemaError
throwError(s, data, st) ==
    Failed([schemaError |-> FALSE, message |-> <<"boom">>], data,
           Log(st, "throw", s, "", NoSchema))

truthy(strict) == strict = "true"

-----------------------------------------------------------------------------
(* Schema.resolve and the resolvers *)

RECURSIVE resolve(_, _, _, _)
RECURSIVE property(_, _, _, _)
RECURSIVE arrayLoop(_, _, _, _, _)
RECURSIVE dictLoop(_, _, _, _, _, _, _)
RECURSIVE tupleLoop(_, _, _, _, _)
RECURSIVE objectLoop(_, _, _, _, _, _)
RECURSIVE unionLoop(_, _, _, _, _)
RECURSIVE intersectLoop(_, _, _, _, _)

\* a resolve that consults the default before required
nullableDefaultFirst(meta) ==
    IF ~isNullable(meta.default) THEN "fallback"
    ELSE IF meta.required THEN "throw"
    ELSE "return"

\* What resolve does with a nullable input: required is looked at first.
nullable(meta) ==
    IF meta.required THEN "throw"
    ELSE IF isNullable(meta.default) THEN "return"
    ELSE "fallback"

\* a resolve without the finally block
restoreNothing(st, previous) == st

\* finally { SchemaError.current = previous }
restore(st, previous) == [st EXCEPT !.current = previous]

\* a property that resolves its element in strict mode
propertyHintStrict == "true"

\* The strict argument each caller of Schema.resolve passes on
propertyHint == "absent"
keyHint == "absent"
unionHint == "absent"
intersectHint == "true"
transformHint == "true"

resolveAny(data, s, strict, st) == Done(<<data>>, TRUE, data, st)

resolveNever(data, s, strict, st) ==
    throwSchemaError(<<"expected nullable but got ", stringify(data)>>, s, data, st)

resolveConst(data, s, strict, st) ==
    IF data.t \in {"str", "num", "bool"} /\ data = s.value
    THEN Done(<<s.value>>, TRUE, data, st)
    ELSE throwSchemaError(<<"expected ", Text(s.value), " but got ", stringify(data)>>,
                          s, data, st)

resolveString(data, s, strict, st) ==
    IF data.t = "str" THEN Done(<<data>>, TRUE, data, st)
    ELSE throwSchemaError(<<"expected string but got ", stringify(data)>>, s, data, st)

resolveNumber(data, s, strict, st) ==
    IF data.t = "num" THEN Done(<<data>>, TRUE, data, st)
    ELSE throwSchemaError(<<"expected number but got ", stringify(data)>>, s, data, st)

resolveBoolean(data, s, strict, st) ==
    IF data.t = "bool" THEN Done(<<data>>, TRUE, data, st)
    ELSE throwSchemaError(<<"expected boolean but got ", stringify(data)>>, s, data, st)

\* data instanceof callback, for the constructors Object and Array
instanceof(data, callback) ==
    \/ callback = "Object" /\ data.t \in {"arr", "map"}
    \/ callback = "Array" /\ data.t = "arr"

resolveIs(data, s, strict, st) ==
    IF instanceof(data, s.callback) THEN Done(<<data>>, TRUE, data, st)
    ELSE throwSchemaError(<<"expected ", s.callback, " but got ", Text(data)>>, s, data, st)

\* a property that takes the value for the adapted value
adaptedIsValue(ret) == ret[1]

\* The adapted value property writes back: the second element of the pair
adaptedOf(ret) == IF Len(ret) >= 2 THEN ret[2] ELSE Null

\* data[key] after property: the adapted value when it is not nullable
writeBack(data, key, adapted) ==
    IF ~isNullable(adapted) THEN setProp(data, key, adapted) ELSE data

\* what property does with r, the outcome of Schema.resolve(data[key], schema)
propertyOf(data, key, r) ==
    \* the element is the same object the callee changed in place
    LET d1 == IF hasProp(data, key) THEN setProp(data, key, r.data) ELSE data
    IN  IF r.ok
        THEN [ok |-> TRUE, value |-> r.ret[1], data |-> writeBack(d1, key, adaptedOf(r.ret)),
              error |-> NoError, st |-> r.st]
        ELSE [ok |-> FALSE, value |-> Null, data |-> d1, error |-> r.error, st |-> r.st]

property(data, key, s, st) ==
    propertyOf(data, key, resolve(getProp(data, key), s, propertyHint, st))

\* one step of data.map((_, index) => property(data, index, inner)), p its outcome
arrayNext(s, index, result, p) ==
    IF p.ok THEN arrayLoop(p.data, s, index + 1, Append(result, p.value), p.st)
    ELSE Failed(p.error, p.data, p.st)

arrayLoop(data, s, index, result, st) ==
    IF index > Len(data.items) THEN Done(<<Arr(result)>>, FALSE, data, st)
    ELSE arrayNext(s, index, result, property(data, index, s.inner, st))

resolveArray(data, s, strict, st) ==
    IF ~isArray(data)
    THEN throwSchemaError(<<"expected array but got ", stringify(data)>>, s, data, st)
    ELSE arrayLoop(data, s, 1, <<>>, st)

\* a dict that skips a failing key in lenient mode and throws in strict mode
dictKeyFailureSwapped(strict) == IF truthy(strict) THEN "throw" ELSE "continue"

\* catch (error) { if (strict) continue; throw error }
dictKeyFailure(strict) == IF truthy(strict) THEN "continue" ELSE "throw"

\* data[rKey] = data[key]; delete data[key]
dictRewrite(data, key, rKey) == deleteKey(setKey(data, rKey, getKey(data, key)), key)

\* result[rKey] = property(data, key, inner), p its outcome, and the rewrite
dictValue(s, strict, keys, i, result, rKey, p) ==
    IF ~p.ok THEN Failed(p.error, p.data, p.st)
    ELSE dictLoop(dictRewrite(p.data, keys[i], rKey), s, strict, keys, i + 1,
                  setKey(result, rKey, p.value), p.st)

\* k is the outcome of Schema.resolve(key, sKey)
dictKey(data, s, strict, keys, i, result, k) ==
    IF ~k.ok
    THEN IF dictKeyFailure(strict) = "continue"
         THEN dictLoop(data, s, strict, keys, i + 1, result, k.st)
         ELSE Failed(k.error, data, k.st)
    ELSE dictValue(s, strict, keys, i, result, Text(k.ret[1]),
                   property(data, keys[i], s.inner, k.st))

\* keys is the enumeration for (const key in data) began with; a key deleted
\* before its turn is not visited, a key added during the loop is not either.
dictLoop(data, s, strict, keys, i, result, st) ==
    IF i > Len(keys) THEN Done(<<result>>, FALSE, data, st)
    ELSE IF ~hasKey(data, keys[i]) THEN dictLoop(data, s, strict, keys, i + 1, result, st)
    ELSE dictKey(data, s, strict, keys, i, result, resolve(Str(keys[i]), s.sKey, keyHint, st))

resolveDict(data, s, strict, st) ==
    IF ~isObject(data)
    THEN throwSchemaError(<<"expected object but got ", stringify(data)>>, s, data, st)
    ELSE dictLoop(data, s, strict, data.keys, 1, EmptyObj, st)

\* a tuple that appends the whole of data
tupleRestAll(data, list) == data.items

\* data.slice(list.length)
tupleRest(data, list) ==
    [i \in 1..(IF Len(data.items) > Len(list) THEN Len(data.items) - Len(list) ELSE 0) |->
        data.items[Len(list) + i]]

tupleNext(s, strict, result, p) ==
    IF p.ok THEN tupleLoop(p.data, s, strict, Append(result, p.value), p.st)
    ELSE Failed(p.error, p.data, p.st)

\* list.map((inner, index) => property(data, index, inner)), then the rest
tupleLoop(data, s, strict, result, st) ==
    IF Len(result) >= Len(s.list)
    THEN IF truthy(strict) THEN Done(<<Arr(result)>>, FALSE, data, st)
         ELSE Done(<<Arr(result \o tupleRest(data, s.list))>>, FALSE, data, st)
    ELSE tupleNext(s, strict, result,
                   property(data, Len(result) + 1, s.list[Len(result) + 1], st))

resolveTuple(data, s, strict, st) ==
    IF ~isArray(data)
    THEN throwSchemaError(<<"expected array but got ", stringify(data)>>, s, data, st)
    ELSE tupleLoop(data, s, strict, <<>>, st)

\* if (!isNullable(value) || key in data) result[key] = value
objectField(result, data, key, value) ==
    IF ~isNullable(value) \/ hasKey(data, key) THEN setKey(result, key, value) ELSE result

\* if (!strict) merge(result, data)
objectRest(result, data, strict) == IF ~truthy(strict) THEN merge(result, data) ELSE result

objectNext(s, strict, i, result, p) ==
    IF p.ok
    THEN objectLoop(p.data, s, strict, i + 1,
                    objectField(result, p.data, s.dict.keys[i], p.value), p.st)
    ELSE Failed(p.error, p.data, p.st)

\* for (const key in dict) { ... }, then the undeclared keys
objectLoop(data, s, strict, i, result, st) ==
    IF i > Len(s.dict.keys)
    THEN Done(<<objectRest(result, data, strict)>>, FALSE, data, st)
    ELSE objectNext(s, strict, i, result,
                    property(data, s.dict.keys[i], s.dict.vals[s.dict.keys[i]], st))

resolveObject(data, s, strict, st) ==
    IF ~isObject(data)
    THEN throwSchemaError(<<"expected object but got ", stringify(data)>>, s, data, st)
    ELSE objectLoop(data, s, strict, 1, EmptyObj, st)

\* new SchemaError(`expected union but got ${JSON.stringify(data)}`): the
\* messages collected from the alternatives are not part of it
unionMessage(data, messages) == <<"expected union but got ", stringify(data)>>

\* r is the outcome of Schema.resolve(data, inner) for the alternative i
unionNext(s, i, messages, r) ==
    IF r.ok THEN r
    ELSE unionLoop(r.data, s, i + 1, Append(messages, r.error.message), r.st)

unionLoop(data, s, i, messages, st) ==
    IF i > Len(s.list) THEN throwSchemaError(unionMessage(data, messages), s, data, st)
    ELSE unionNext(s, i, messages, resolve(data, s.list[i], unionHint, st))

resolveUnion(data, s, strict, st) == unionLoop(data, s, 1, <<>>, st)

\* r is the outcome of Schema.resolve(data, inner, true) for the alternative i
intersectNext(s, i, result, r) ==
    IF r.ok THEN intersectLoop(r.data, s, i + 1, assign(result, r.ret[1]), r.st)
    ELSE Failed(r.error, r.data, r.st)

intersectLoop(data, s, i, result, st) ==
    IF i > Len(s.list)
    THEN Done(<<IF isObject(data) THEN merge(result, data) ELSE result>>, FALSE, data, st)
    ELSE intersectNext(s, i, result, resolve(data, s.list[i], intersectHint, st))

resolveIntersect(data, s, strict, st) == intersectLoop(data, s, 1, EmptyObj, st)

\* the keys for (const key in result) visits
enumerate(result) ==
    CASE result.t = "map" -> result.keys
      [] result.t = "arr" -> [i \in 1..Len(result.items) |-> ToString(i - 1)]
      [] result.t = "str" -> (IF result.s = "" THEN <<>> ELSE <<"0">>)
      [] OTHER -> <<>>

\* temp[key] = data[key]; delete data[key], for the keys of result in data
RECURSIVE extract(_, _, _, _)
extract(data, keys, i, temp) ==
    IF i > Len(keys) THEN [data |-> data, temp |-> temp]
    ELSE IF ~hasKey(data, keys[i]) THEN extract(data, keys, i + 1, temp)
    ELSE extract(deleteKey(data, keys[i]), keys, i + 1,
                 setKey(temp, keys[i], getKey(data, keys[i])))

\* return [callback(result)], d being data after Object.assign(data, callback(temp));
\* result is data itself when the inner schema returned its input
transformReturn(s, r, d) ==
    Done(<<call(s.callback, IF r.same THEN d ELSE r.ret[1])>>,
         r.same /\ s.callback = "id", d, r.st)

\* the plain-object branch: x holds data without the extracted keys, and temp
transformObject(s, r, x) ==
    IF throws(s.callback, x.temp) THEN throwError(s, x.data, r.st)
    ELSE transformReturn(s, r, assign(x.data, call(s.callback, x.temp)))

\* r is the outcome of Schema.resolve(data, inner, true)
transformOf(s, r) ==
    IF ~r.ok THEN Failed(r.error, r.data, r.st)
    ELSE IF isObject(r.data)
    THEN transformObject(s, r, extract(r.data, enumerate(r.ret[1]), 1, EmptyObj))
    ELSE IF throws(s.callback, r.ret[1]) THEN throwError(s, r.data, r.st)
    ELSE Done(<<call(s.callback, r.ret[1]),
                call(s.callback, IF isNullable(adaptedOf(r.ret)) THEN r.data
                                 ELSE adaptedOf(r.ret))>>,
              r.same /\ s.callback = "id", r.data, r.st)

resolveTransform(data, s, strict, st) ==
    transformOf(s, resolve(data, s.inner, transformHint, st))

\* callback(data, schema, hint) for callback = resolvers[schema.type]
dispatch(data, s, strict, st) ==
    CASE s.type = "any" -> resolveAny(data, s, strict, st)
      [] s.type = "never" -> resolveNever(data, s, strict, st)
      [] s.type = "const" -> resolveConst(data, s, strict, st)
      [] s.type = "string" -> resolveString(data, s, strict, st)
      [] s.type = "number" -> resolveNumber(data, s, strict, st)
      [] s.type = "boolean" -> resolveBoolean(data, s, strict, st)
      [] s.type = "is" -> resolveIs(data, s, strict, st)
      [] s.type = "array" -> resolveArray(data, s, strict, st)
      [] s.type = "dict" -> resolveDict(data, s, strict, st)
      [] s.type = "tuple" -> resolveTuple(data, s, strict, st)
      [] s.type = "object" -> resolveObject(data, s, strict, st)
      [] s.type = "union" -> resolveUnion(data, s, strict, st)
      [] s.type = "intersect" -> resolveIntersect(data, s, strict, st)
      [] s.type = "transform" -> resolveTransform(data, s, strict, st)

\* the body of the try block, after the nullable input is dealt with
invoke(data, s, strict, st) ==
    IF s.type \notin resolvers
    THEN throwSchemaError(<<"unsupported type \"", s.type, "\"">>, s, data, st)
    ELSE dispatch(data, s, strict, Log(st, "callback", s, strict, NoSchema))

\* catch (error) { if (error instanceof SchemaError) error = new SchemaError(...) }
rewrap(r, s) ==
    IF ~r.ok /\ r.error.schemaError
    THEN [r EXCEPT !.st = Log(@, "rewrap", s, "", NoSchema)]
    ELSE r

\* The try block.  A fallback is bound to the local data: the caller's
\* argument stays the nullable value it was.
attempt(data, s, strict, st) ==
    IF isNullable(data) /\ nullable(s.meta) = "throw"
    THEN throwSchemaError(<<"missing required value">>, s, data, st)
    ELSE IF isNullable(data) /\ nullable(s.meta) = "return"
    THEN Done(<<data>>, TRUE, data, st)
    ELSE invoke(IF isNullable(data) THEN s.meta.default ELSE data, s, strict, st)

\* The catch and finally blocks, r being how the try block ended
leave(data, s, previous, r) ==
    [rewrap(r, s) EXCEPT
        !.data = IF isNullable(data) THEN data ELSE @,
        !.same = IF isNullable(data) /\ nullable(s.meta) = "fallback" THEN FALSE ELSE @,
        !.st = Log(restore(@, previous), "exit", s, "", previous)]

resolve(data, s, strict, st) ==
    IF s = NoSchema THEN Done(<<data>>, TRUE, data, st)
    ELSE leave(data, s, st.current,
               attempt(data, s, strict,
                       Log([st EXCEPT !.current = s], "enter", s, strict, st.current)))

-----------------------------------------------------------------------------
(* The inputs and the schemas of the model *)

Keys == <<"a", "b">>

Prims == {Num(n) : n \in 0..MaxNum} \cup {Str("a"), Str("b"), Bool(TRUE)}

\* the elements of the input arrays
Elems == {Null, Num(0), Str("a")}

Arrays == {Arr(items) : items \in UNION {[1..n -> Elems] : n \in 0..MaxLen}}

Inner == Obj(<<"a", "b">>, [k \in {"a", "b"} |-> IF k = "a" THEN Num(0) ELSE Num(1)])

\* the values of the input objects
Fields == {Null, Num(0), Str("a"), Inner}

Objects ==
    {EmptyObj}
    \cup {Obj(<<k>>, [j \in {k} |-> v]) : k \in Range(Keys), v \in Fields}
    \cup {Obj(ks, [j \in {"a", "b"} |-> IF j = "a" THEN v ELSE w]) :
            ks \in {<<"a", "b">>, <<"b", "a">>}, v \in Fields \ {Null}, w \in {Num(MaxNum), Str("b")}}

Inputs == {Null} \cup Prims \cup Arrays \cup Objects

\* the values schema.default(value) is called with
Defaults == {Num(0), Str("a")}

Hints == {"absent", "false", "true"}

F(k, v) == [j \in {k} |-> v]
F2(v, w) == [j \in {"a", "b"} |-> IF j = "a" THEN v ELSE w]

Leaves ==
    {any, never, string, number, boolean, const(Num(0)), from(Str("a")),
     from(Ctor("Object")), from(Ctor("Array")), from(Ctor("Number")), Schema("custom")}

ArraySchemas ==
    {array(number), array(default(number, Num(1))), array(required(number)),
     array(transform(number, "next")), array(default(transform(any, "next"), Num(0))),
     array(dict(any, Null))}

TupleSchemas ==
    {tuple(<<number, default(string, Str("a"))>>),
     tuple(<<required(number), default(number, Num(1))>>),
     tuple(<<default(number, Num(1))>>),
     tuple(<<default(transform(number, "next"), Num(0))>>)}

DictSchemas ==
    {dict(number, Null), dict(any, Str("a")), dict(any, string),
     dict(string, transform(string, "next")), dict(default(number, Num(0)), Null),
     dict(any, union(<<Str("a"), transform(Str("b"), "boom")>>))}

ObjectSchemas ==
    {object(<<"a">>, F("a", number)),
     object(<<"a">>, F("a", default(string, Str("a")))),
     object(<<"a">>, F("a", required(number))),
     object(<<"a", "b">>, F2(number, default(number, Num(1)))),
     object(<<"a">>, F("a", object(<<"a">>, F("a", number)))),
     object(<<"a">>, F("a", transform(any, "void"))),
     object(<<"a">>, F("a", default(transform(transform(any, "void"), "id"), Num(0)))),
     object(<<"b">>, F("b", dict(any, Null)))}

UnionSchemas ==
    {union(<<Str("b"), Str("a")>>), union(<<number, string>>),
     union(<<tuple(<<required(number), default(number, Num(1))>>),
             tuple(<<default(number, Num(1))>>)>>),
     union(<<dict(number, Null), any>>),
     union(<<transform(number, "boom"), any>>)}

IntersectSchemas ==
    {intersect(<<object(<<"a">>, F("a", default(any, x))),
                 object(<<"a">>, F("a", default(any, y)))>>) :
        x \in Defaults, y \in Defaults}
    \cup {intersect(<<object(<<"a">>, F("a", number)),
                      object(<<"b">>, F("b", default(number, Num(1))))>>),
          intersect(<<object(<<"a">>, F("a", transform(number, "next"))),
                      object(<<"a">>, F("a", number))>>),
          intersect(<<object(<<"a">>, F("a", number)), dict(any, Null)>>),
          intersect(<<any, number>>)}

TransformSchemas ==
    {transform(number, "next"), transform(string, "next"), transform(any, "id"),
     transform(any, "void"), transform(any, "boom"),
     transform(object(<<"a">>, F("a", number)), "id"),
     transform(object(<<"a">>, F("a", number)), "next")}

Schemas ==
    {NoSchema} \cup Leaves \cup ArraySchemas \cup TupleSchemas \cup DictSchemas
    \cup ObjectSchemas \cup UnionSchemas \cup IntersectSchemas \cup TransformSchemas

-----------------------------------------------------------------------------
(* The state machine: a caller builds a schema, resolves its data against  *)
(* it, and resolves the value it got once more.                            *)

NoOut == [ok |-> FALSE, ret |-> <<>>, error |-> NoError, data |-> Null]

Init ==
    /\ schema \in Schemas
    /\ input \in Inputs
    /\ given = input
    /\ hint = "absent"
    /\ phase = "built"
    /\ out = NoOut
    /\ again = NoOut
    /\ current = NoSchema
    /\ trace = <<>>

\* schema.required()
Required ==
    /\ phase = "built"
    /\ schema # NoSchema
    /\ ~schema.meta.required
    /\ schema' = required(schema)
    /\ UNCHANGED <<input, given, hint, phase, out, again, current, trace>>

\* schema.default(value)
Default ==
    /\ phase = "built"
    /\ schema # NoSchema
    /\ isNullable(schema.meta.default)
    /\ \E value \in Defaults : schema' = default(schema, value)
    /\ UNCHANGED <<input, given, hint, phase, out, again, current, trace>>

\* Schema.resolve(input, schema, strict)
Resolve ==
    /\ phase = "built"
    /\ \E strict \in Hints :
        LET r == resolve(input, schema, strict, [current |-> current, log |-> trace])
        IN  /\ hint' = strict
            /\ out' = [ok |-> r.ok, ret |-> r.ret, error |-> r.error, data |-> r.data]
            /\ input' = r.data
            /\ current' = r.st.current
            /\ trace' = r.st.log
    /\ phase' = "resolved"
    /\ UNCHANGED <<schema, given, again>>

\* Schema.resolve(value, schema, strict) for the value the first call returned
Again ==
    /\ phase = "resolved"
    /\ out.ok
    /\ LET r == resolve(out.ret[1], schema, hint, [current |-> current, log |-> trace])
       IN  /\ again' = [ok |-> r.ok, ret |-> r.ret, error |-> r.error, data |-> r.data]
           /\ current' = r.st.current
           /\ trace' = r.st.log
    /\ phase' = "again"
    /\ UNCHANGED <<schema, input, given, hint, out>>

Next == Required \/ Default \/ Resolve \/ Again

Spec == Init /\ [][Next]_vars

-----------------------------------------------------------------------------
(* Properties *)

\* a call of Schema.resolve has returned or thrown
Called == phase \in {"resolved", "again"}

\* the state a separate call starts from
Fresh == [current |-> NoSchema, log |-> <<>>]

\* Schema.resolve(data, s) on its own, in lenient mode
Sub(data, s) == resolve(data, s, "absent", Fresh)

Events(ev) == {i \in 1..Len(trace) : trace[i].ev = ev}

\* C1: a required schema given a nullable input fails with 'missing required
\* value', with or without a default and for every strict argument: the
\* default is not substituted and no resolver is invoked.
C1_RequiredBeforeDefault ==
    (Called /\ schema # NoSchema /\ schema.meta.required /\ isNullable(given))
        => /\ ~out.ok
           /\ out.error.schemaError
           /\ out.error.message = <<"missing required value">>
           /\ out.ret = <<>>
           /\ Events("callback") = {}

C1_Witness ==
    /\ Called /\ schema # NoSchema /\ schema.meta.required /\ isNullable(given)
    /\ ~isNullable(schema.meta.default)
    /\ hint = "true"
    /\ ~out.ok

Declared == Range(schema.dict.keys)

\* the value an object schema resolves its field key to
FieldValue(key) == Sub(getKey(given, key), schema.dict.vals[key]).ret[1]

\* C2: an object schema given a plain object returns, in lenient mode, every
\* undeclared input key with its input value, and in strict mode no
\* undeclared input key; in both modes a declared field is in the result
\* exactly when its resolved value is not nullable or its key was in the input.
C2_ObjectKeys ==
    (Called /\ schema.type = "object" /\ isObject(given) /\ out.ok)
        => LET result == out.ret[1]
           IN  /\ isObject(result)
               /\ hint # "true" =>
                    \A key \in Range(given.keys) \ Declared :
                        hasKey(result, key) /\ result.vals[key] = given.vals[key]
               /\ hint = "true" => Range(result.keys) \subseteq Declared
               /\ \A key \in Declared :
                    /\ hasKey(result, key)
                         <=> (~isNullable(FieldValue(key)) \/ hasKey(given, key))
                    /\ hasKey(result, key) => result.vals[key] = FieldValue(key)

\* C9: SchemaError.current follows stack discipline: a resolver runs, and an
\* error is raised or re-wrapped, with the slot holding the schema being
\* resolved; every call leaves the slot as it found it, so that it is back at
\* its initial value after each top-level call.
C9_StackDiscipline ==
    /\ current = NoSchema
    /\ \A i \in 1..Len(trace) :
        /\ trace[i].ev \in {"callback", "raise", "rewrap", "throw"}
             => trace[i].current = trace[i].schema
        /\ trace[i].ev = "exit" => trace[i].current = trace[i].previous

C9_Witness ==
    /\ Called /\ ~out.ok
    /\ \E i \in Events("raise") : trace[i].schema.type = "union"
    /\ \E i \in Events("exit") : trace[i].previous.type = "union"
    /\ \E i \in Events("throw") : trace[i].schema.type = "transform"

\* C10: the strict argument is not passed down: the elements, values, keys,
\* positions, fields and alternatives of array, dict, tuple, object and union
\* are resolved without it whatever the caller gave, so an object in strict
\* mode still returns the undeclared keys of a nested object; intersect and
\* transform always pass true.
C10_StrictNotPassedDown ==
    /\ \A i \in Events("enter") :
        /\ trace[i].previous.type \in {"array", "dict", "tuple", "object", "union"}
             => trace[i].hint = "absent"
        /\ trace[i].previous.type \in {"intersect", "transform"}
             => trace[i].hint = "true"
    /\ (Called /\ schema.type = "object" /\ isObject(given) /\ out.ok)
         => \A key \in Declared :
                (schema.dict.vals[key].type = "object" /\ isObject(getKey(given, key)))
                    => \A k \in Range(getKey(given, key).keys) :
                           hasKey(out.ret[1].vals[key], k)

C10_Witness ==
    /\ Called /\ hint = "true" /\ out.ok
    /\ schema.type = "object" /\ isObject(given)
    /\ \E key \in Declared :
        /\ schema.dict.vals[key].type = "object"
        /\ isObject(getKey(given, key))
        /\ \E k \in Range(getKey(given, key).keys) :
            /\ k \notin Range(schema.dict.vals[key].dict.keys)
            /\ hasKey(out.ret[1].vals[key], k)

\* how a dict schema resolves the key of an entry, and the entry's value
KeyOf(key) == Sub(Str(key), schema.sKey)
ValueOf(key) == Sub(getKey(given, key), schema.inner)

FailingKeys == {key \in Range(given.keys) : ~KeyOf(key).ok}
PassingKeys == Range(given.keys) \ FailingKeys

\* no key of the input is resolved to the key of another entry, so that the
\* rewrite of the caller's object overwrites no entry that is still to come
NoCollision ==
    \A key \in PassingKeys : \A k \in Range(given.keys) \ {key} :
        /\ Text(KeyOf(key).ret[1]) # k
        /\ k \in PassingKeys => Text(KeyOf(key).ret[1]) # Text(KeyOf(k).ret[1])

\* a dict schema is given a plain object some key of which the key schema
\* rejects, while no entry fails on its value
KeyFailure ==
    /\ Called /\ schema.type = "dict" /\ isObject(given)
    /\ FailingKeys # {}
    /\ NoCollision
    /\ \A key \in PassingKeys : ValueOf(key).ok

\* the position in the enumeration of the first key the key schema rejects
FirstFailing == CHOOSE i \in 1..Len(given.keys) :
    /\ given.keys[i] \in FailingKeys
    /\ \A j \in 1..(i - 1) : given.keys[j] \notin FailingKeys

\* the result holds the entries of the passing keys and nothing else
SkipsFailingKeys ==
    /\ out.ok
    /\ Range(out.ret[1].keys) = {Text(KeyOf(key).ret[1]) : key \in PassingKeys}
    /\ \A key \in PassingKeys :
        out.ret[1].vals[Text(KeyOf(key).ret[1])] = ValueOf(key).ret[1]

\* the error of the first failing key is the error of the call
PropagatesKeyError ==
    /\ ~out.ok
    /\ out.error = KeyOf(given.keys[FirstFailing]).error

\* C3 as stated: a key the key schema rejects is skipped in lenient mode and
\* fails the dict resolution with the key's error in strict mode.
C3_LenientSkipsStrictThrows ==
    KeyFailure => IF hint = "true" THEN PropagatesKeyError ELSE SkipsFailingKeys

\* C3 amended: a key the key schema rejects is skipped in strict mode, the
\* other entries being resolved and returned, and fails the dict resolution
\* with the key's error in lenient mode.
C3_StrictSkipsLenientThrows ==
    KeyFailure => IF hint = "true" THEN SkipsFailingKeys ELSE PropagatesKeyError

C3_Witness ==
    /\ KeyFailure /\ hint = "true"
    /\ PassingKeys # {}
    /\ SkipsFailingKeys
    /\ \E key \in FailingKeys : ~hasKey(out.ret[1], key)

\* an intersect schema of object schemas is given a plain object
ObjectIntersect ==
    /\ Called /\ schema.type = "intersect" /\ isObject(given) /\ out.ok
    /\ \A i \in 1..Len(schema.list) : schema.list[i].type = "object"

\* the caller's object as the alternatives before i left it, and what the
\* alternative i returns for it: intersect resolves it in strict mode
RECURSIVE DataBefore(_)
DataBefore(i) ==
    IF i = 1 THEN given
    ELSE resolve(DataBefore(i - 1), schema.list[i - 1], "true", Fresh).data

Alternative(i) == resolve(DataBefore(i), schema.list[i], "true", Fresh).ret[1]

Producers(key) == {i \in 1..Len(schema.list) : hasKey(Alternative(i), key)}

First(indices) == CHOOSE i \in indices : \A j \in indices : i <= j
Last(indices) == CHOOSE i \in indices : \A j \in indices : j <= i

\* the result is a merge of the alternatives' results and the input
MergesAlternatives ==
    /\ Range(out.ret[1].keys)
         = Range(given.keys) \cup {key \in Range(Keys) : Producers(key) # {}}
    /\ \A key \in Range(given.keys) :
         Producers(key) = {} => out.ret[1].vals[key] = given.vals[key]

\* C4 as stated: the first-listed alternative wins on a key collision.
C4_FirstAlternativeWins ==
    ObjectIntersect =>
        /\ MergesAlternatives
        /\ \A key \in Range(Keys) : Producers(key) # {} =>
             out.ret[1].vals[key] = Alternative(First(Producers(key))).vals[key]

\* C4 amended: the result of an intersect schema is the shallow merge of
\* every alternative's result and the last-listed alternative wins on a key
\* collision.
C4_LastAlternativeWins ==
    ObjectIntersect =>
        /\ MergesAlternatives
        /\ \A key \in Range(Keys) : Producers(key) # {} =>
             out.ret[1].vals[key] = Alternative(Last(Producers(key))).vals[key]

C4_Witness ==
    /\ ObjectIntersect /\ given = EmptyObj
    /\ Cardinality(Producers("a")) = 2
    /\ Alternative(1).vals["a"] # Alternative(2).vals["a"]
    /\ out.ret[1].vals["a"] = Alternative(2).vals["a"]

\* the message m contains the message part
Mentions(m, part) ==
    \E i \in 1..Len(m) : i + Len(part) - 1 <= Len(m) /\ SubSeq(m, i, i + Len(part) - 1) = part

\* the message m contains the messages of the outcomes rs, one after another
RECURSIVE MentionsInOrder(_, _, _)
MentionsInOrder(m, rs, start) ==
    IF rs = <<>> THEN TRUE
    ELSE \E i \in start..Len(m) :
            /\ i + Len(Head(rs).error.message) - 1 <= Len(m)
            /\ SubSeq(m, i, i + Len(Head(rs).error.message) - 1) = Head(rs).error.message
            /\ MentionsInOrder(m, Tail(rs), i + Len(Head(rs).error.message))

\* the outcomes of the alternatives of a union schema for a primitive input
Tries == [i \in 1..Len(schema.list) |-> Sub(given, schema.list[i])]

Succeeding == {i \in 1..Len(schema.list) : Tries[i].ok}

\* C5: a union schema all of whose alternatives fail fails with one schema
\* error whose message holds the message of every alternative, in list
\* order; otherwise the result is that of the first alternative that succeeds.
C5_UnionAggregatesMessages ==
    (Called /\ schema.type = "union" /\ given.t \in {"num", "str", "bool"})
        => IF Succeeding = {}
           THEN /\ ~out.ok
                /\ out.error.schemaError
                /\ MentionsInOrder(out.error.message, Tries, 1)
           ELSE /\ out.ok
                /\ out.ret = Tries[First(Succeeding)].ret

\* C6: a dict schema leaves every entry whose key resolves in the result
\* under the resolved key and in the caller's object under the resolved key,
\* and no longer under an old key that differs from it.
C6_DictRewritesOriginal ==
    (Called /\ schema.type = "dict" /\ isObject(given) /\ out.ok)
        => \A key \in PassingKeys :
            LET rKey == Text(KeyOf(key).ret[1])
            IN  /\ hasKey(out.ret[1], rKey)
                /\ hasKey(input, rKey)
                /\ rKey # key /\ (\A k \in PassingKeys : Text(KeyOf(k).ret[1]) # key)
                     => ~hasKey(input, key)

\* the element schema of an array or tuple schema at position i
ElementSchema(i) == IF schema.type = "array" THEN schema.inner ELSE schema.list[i]

\* the positions at which a default is substituted for a missing element
Substituted ==
    {i \in 1..(IF schema.type = "array" THEN Len(given.items) ELSE Len(schema.list)) :
        /\ isNullable(getIndex(given, i))
        /\ nullable(ElementSchema(i).meta) = "fallback"}

SequenceCall ==
    Called /\ schema.type \in {"array", "tuple"} /\ isArray(given) /\ out.ok

RECURSIVE Plain(_)
Plain(s) ==
    CASE s.type \in {"any", "const", "string", "number", "boolean", "is"} -> TRUE
      [] s.type = "array" -> Plain(s.inner)
      [] s.type = "dict" -> Plain(s.inner) /\ Plain(s.sKey)
      [] s.type \in {"tuple"} -> \A i \in 1..Len(s.list) : Plain(s.list[i])
      [] s.type = "object" -> \A key \in Range(s.dict.keys) : Plain(s.dict.vals[key])
      [] OTHER -> FALSE

\* C8 as stated: for a schema of any supported kind, resolving the value a
\* successful resolution returned succeeds and returns the same value.
C8_Idempotent ==
    phase = "again" => again.ok /\ again.ret[1] = out.ret[1]

\* C8 amended: the same for the schemas built from any, const, string,
\* number, boolean, is, array, dict, tuple and object only.
C8_PlainIdempotent ==
    (phase = "again" /\ Plain(schema)) => again.ok /\ again.ret[1] = out.ret[1]

C8_Witness ==
    /\ phase = "again" /\ Plain(schema)
    /\ schema.type = "tuple" /\ hint # "true"
    /\ isArray(given) /\ Len(given.items) > Len(schema.list)
    /\ out.ret[1] # given
    /\ again.ret[1] = out.ret[1]

====
